---- MODULE Spec2Model ----
(***************************************************************************)
(* Model of the technology-news-search ranking engine:                     *)
(*   shared/heat_calculator.py  (normalize_title, find_duplicate_sources,  *)
(*                               calculate_heat_score)                     *)
(*   search_news.py             (balance_sources, search_news)             *)
(*                                                                         *)
(* Python values are modelled as follows.                                  *)
(*   - a str is a sequence of one-character strings;                       *)
(*   - a dict field is a tagged record [k |-> kind, v |-> value] where      *)
(*     kind "absent" means the key is missing, "none" means the value is   *)
(*     None, and "str"/"int" carry the value;                              *)
(*   - a call's outcome is [exc |-> name, val |-> value]: exc = "none"     *)
(*     when the call returns val, otherwise the exception it raises;       *)
(*   - the field oid of an article is the identity of the dict object      *)
(*     (no code reads it).                                                 *)
(***************************************************************************)
EXTENDS Integers, Sequences, FiniteSets

VARIABLES
    pc,              \* position of the running specification
    keyword,         \* the search keyword
    articles_list,   \* search_news: the collected list, scored in place
    idx,             \* search_news: number of articles already scored
    sources_left,    \* search_news: sources of the loop not yet processed
    exc,             \* search_news: the exception that ended the call
    balance,         \* search_news: the balance flag
    max_per_source,  \* search_news / balance_sources: the per-source cap
    results,         \* search_news: result["results"]; balance_sources: its return value
    collected,       \* history: articles_list as it was when scoring began
    sorted_list,     \* history: articles_list right after the sort
    article,         \* calculate_heat_score / find_duplicate_sources: the target
    all_articles,    \* calculate_heat_score / find_duplicate_sources: the candidates
    score_result,    \* outcome of calculate_heat_score(article, all_articles, keyword)
    dup_result,      \* outcome of find_duplicate_sources(article, all_articles)
    norm_input,      \* normalize_title: the argument
    norm_output,     \* normalize_title(norm_input)
    norm_again,      \* normalize_title(norm_output)
    stdin_kind,      \* run_extract: what stdin holds
    n_pages,         \* run_extract: len(pages); the pages are 1 .. n_pages
    max_workers,     \* run_extract: the parameter, then the clamped pool size
    page_status,     \* run_extract: where the future of each page stands
    yielded,         \* run_extract: the futures as_completed has handed out
    printed,         \* run_extract: the lines written to stdout, in order
    max_retries,     \* fetch_url: the parameter
    attempt,         \* fetch_url: the loop variable
    responses,       \* fetch_url: history, what each urlopen attempt met
    slept,           \* fetch_url: history, the arguments of time.sleep
    fetch_result,    \* fetch_url: "running", then "content" or "None"
    now,             \* network_detector: time.time()
    cache_exists,    \* network_detector: CACHE_FILE.exists()
    cache_mtime,     \* network_detector: CACHE_FILE.stat().st_mtime
    cache_value,     \* network_detector: the file holds 'true'
    last_probe,      \* network_detector: history, the most recent probe
    last_call        \* network_detector: history, the most recent call

norm_vars == <<norm_input, norm_output, norm_again>>

extract_vars == <<stdin_kind, n_pages, max_workers, page_status, yielded, printed>>

fetch_vars == <<max_retries, attempt, responses, slept, fetch_result>>

cache_vars == <<now, cache_exists, cache_mtime, cache_value, last_probe, last_call>>

\* the variables of the functions outside the ranking pipeline
other_vars == <<norm_vars, extract_vars, fetch_vars, cache_vars>>

vars == <<pc, keyword, articles_list, idx, sources_left, exc, balance,
          max_per_source, results, collected, sorted_list,
          article, all_articles, score_result, dup_result, other_vars>>

\* no call of normalize_title is under way
NormIdle == norm_input = <<>> /\ norm_output = <<>> /\ norm_again = <<>>

\* no call of run_extract is under way
ExtractIdle ==
    /\ stdin_kind = "blank"
    /\ n_pages = 0
    /\ max_workers = 0
    /\ page_status = <<>>
    /\ yielded = {}
    /\ printed = <<>>

\* no call of fetch_url is under way
FetchIdle ==
    /\ max_retries = 0
    /\ attempt = 0
    /\ responses = <<>>
    /\ slept = <<>>
    /\ fetch_result = "running"

\* last_probe: whether a probe was made, what the test URLs answered, the
\* result written, and when
NoProbe == [made |-> FALSE, answers |-> <<>>, result |-> FALSE, at |-> 0]

\* last_call: status "none", "pending" (the cache was read, the probe is under
\* way) or "returned"; the parameter use_cache; whether the call probed the
\* network; the value returned; the time of the return
NoCall ==
    [status |-> "none", use_cache |-> FALSE, probed |-> FALSE, result |-> FALSE, at |-> 0]

\* the network detector was not called
CacheIdle ==
    /\ now = 0
    /\ cache_exists = FALSE
    /\ cache_mtime = 0
    /\ cache_value = FALSE
    /\ last_probe = NoProbe
    /\ last_call = NoCall

OtherIdle == NormIdle /\ ExtractIdle /\ FetchIdle /\ CacheIdle

----------------------------------------------------------------------------
(* Bounds of the model *)

MaxArticles == 3      \* longest list search_news collects
MaxSources == 2       \* sources in the loop of search_news
MaxContext == 2       \* candidates beside the target when scoring one record
MaxBalanceLen == 4    \* longest input of balance_sources
MaxCap == 2           \* largest max_per_source
MaxTitleLen == 4      \* longest argument of normalize_title on its own
MaxPages == 3         \* most pages run_extract reads from stdin
MaxRetries == 3       \* largest max_retries of fetch_url
MaxTime == 610        \* last second of the clock of the network detector

----------------------------------------------------------------------------
(* Python values *)

Absent == [k |-> "absent", v |-> <<>>]
None == [k |-> "none", v |-> <<>>]
Str(s) == [k |-> "str", v |-> s]

AbsentInt == [k |-> "absent", v |-> 0]
NoneInt == [k |-> "none", v |-> 0]
Int_(n) == [k |-> "int", v |-> n]

\* dict.get(key): a missing key reads as None
Get(f) == IF f.k = "absent" THEN [f EXCEPT !.k = "none"] ELSE f

\* dict.get(key, ""): a missing key reads as "", a None value stays None
GetOrEmpty(f) == IF f.k = "absent" THEN Str(<<>>) ELSE f

\* truth value of a str-or-None value
Truthy(f) == f.k = "str" /\ f.v # <<>>

Ok(x) == [exc |-> "none", val |-> x]
Raise(e) == [exc |-> e, val |-> 0]

Min(a, b) == IF a <= b THEN a ELSE b

----------------------------------------------------------------------------
(* str operations *)

UpperChars == <<"A", "B", "C", "D", "E", "F", "G", "H", "I", "J", "K", "L", "M",
                "N", "O", "P", "Q", "R", "S", "T", "U", "V", "W", "X", "Y", "Z">>
LowerChars == <<"a", "b", "c", "d", "e", "f", "g", "h", "i", "j", "k", "l", "m",
                "n", "o", "p", "q", "r", "s", "t", "u", "v", "w", "x", "y", "z">>
DigitChars == {"0", "1", "2", "3", "4", "5", "6", "7", "8", "9"}
SpaceChars == {" ", "\t", "\n"}

Range(s) == {s[i] : i \in DOMAIN s}

UpperSet == Range(UpperChars)
LowerOfUpper == [c \in UpperSet |-> LowerChars[CHOOSE i \in DOMAIN UpperChars : UpperChars[i] = c]]

\* str.lower() on one character
LowerChar(c) == IF c \in UpperSet THEN LowerOfUpper[c] ELSE c

\* str.lower()
Lower(s) == [i \in DOMAIN s |-> LowerChar(s[i])]

\* regex class \w (letters, digits, underscore) and \s
WordChars == Range(UpperChars) \cup Range(LowerChars) \cup DigitChars \cup {"_"}
IsWordChar(c) == c \in WordChars
IsSpaceChar(c) == c \in SpaceChars

\* re.sub(r'[^\w\s]', '', s)
RemovePunct(s) == SelectSeq(s, LAMBDA c : IsWordChar(c) \/ IsSpaceChar(c))

\* re.sub(r'\s+', ' ', s): each maximal run of whitespace becomes one space
RECURSIVE CollapseSpaces(_)
CollapseSpaces(s) ==
    IF s = <<>> THEN <<>>
    ELSE IF IsSpaceChar(Head(s))
         THEN IF Len(s) > 1 /\ IsSpaceChar(s[2])
              THEN CollapseSpaces(Tail(s))
              ELSE <<" ">> \o CollapseSpaces(Tail(s))
         ELSE <<Head(s)>> \o CollapseSpaces(Tail(s))

\* str.strip()
RECURSIVE LStrip(_)
LStrip(s) == IF s # <<>> /\ IsSpaceChar(Head(s)) THEN LStrip(Tail(s)) ELSE s

RECURSIVE RStrip(_)
RStrip(s) ==
    IF s # <<>> /\ IsSpaceChar(s[Len(s)]) THEN RStrip(SubSeq(s, 1, Len(s) - 1)) ELSE s

Strip(s) == RStrip(LStrip(s))

\* the Python expression  a in b  on two str
IsSubstring(a, b) ==
    \E i \in 0 .. (Len(b) - Len(a)) : SubSeq(b, i + 1, i + Len(a)) = a

\* the two headlines of the self-test of heat_calculator.py (lines 136, 142)
TitleOpenAI1 == <<"O", "p", "e", "n", "A", "I", " ", "A", "n", "n", "o", "u", "n", "c",
                  "e", "s", " ", "G", "P", "T", "-", "5">>
TitleOpenAI2 == <<"O", "p", "e", "n", "A", "I", " ", "a", "n", "n", "o", "u", "n", "c",
                  "e", "s", " ", "G", "P", "T", "-", "5", "!">>
\* two short headlines with the same normalized title, "gpt5"
TitleGpt5a == <<"G", "P", "T", "-", "5">>
TitleGpt5b == <<"g", "p", "t", "5", "!">>
TitleGPT == <<"G", "P", "T">>
\* a title of punctuation only: truthy, and normalized to the empty string
TitleBang == <<"!">>
\* the keyword wrapped in a space and punctuation
TitleSpacedGPT == <<" ", "G", "P", "T", "!">>

\* the titles the records of the model carry
KnownTitles ==
    {<<>>, TitleOpenAI1, TitleOpenAI2, TitleGpt5a, TitleGpt5b, TitleGPT,
     TitleBang, TitleSpacedGPT}

\* the steps of lines 95-99 with the strip() done first
NormalizeStepsStripFirst(title) == CollapseSpaces(RemovePunct(Strip(Lower(title))))

\* lines 95-99: lowercase, drop punctuation, collapse whitespace, strip
NormalizeSteps(title) == Strip(CollapseSpaces(RemovePunct(Lower(title))))

\* normalize_title tabulated over the known titles
NormalizedTitle == [title \in KnownTitles |-> NormalizeSteps(title)]

\* heat_calculator.py: normalize_title(title)
normalize_title(title) ==
    IF title \in KnownTitles THEN NormalizedTitle[title] ELSE NormalizeSteps(title)

----------------------------------------------------------------------------
(* Article dicts *)

\* fields holding a name (source, category): v is the name itself
AbsentName == [k |-> "absent", v |-> ""]
NoneName == [k |-> "none", v |-> ""]
Name(s) == [k |-> "str", v |-> s]
TruthyName(f) == f.k = "str" /\ f.v # ""

\* published_at: form tells what datetime.fromisoformat makes of the string
\*   "empty"  the empty string
\*   "bad"    not an ISO 8601 timestamp
\*   "naive"  an ISO 8601 timestamp without UTC offset
\*   "aware"  an ISO 8601 timestamp with UTC offset, age seconds before now
AbsentTime == [k |-> "absent", form |-> "empty", age |-> 0]
NoneTime == [k |-> "none", form |-> "empty", age |-> 0]
Time(form, age) == [k |-> "str", form |-> form, age |-> age]
TruthyTime(f) == f.k = "str" /\ f.form # "empty"

NotWritten == [k |-> "absent", v |-> <<>>]
Written(l) == [k |-> "list", v |-> l]

Article(o, t, sm, src, pub, hn, rd, cat) ==
    [oid |-> o, title |-> t, summary |-> sm, source |-> src, published_at |-> pub,
     hn_points |-> hn, reddit_upvotes |-> rd, category |-> cat,
     heat_score |-> AbsentInt, duplicate_sources |-> NotWritten]

----------------------------------------------------------------------------
(* heat_calculator.py: calculate_heat_score, term by term *)

BaseScore == 20
VeryFresh == 40
Recent == 28
SomewhatRecent == 16
Older == 8
UnparsedDefault == 10
ExactMatch == 30
TitleMatch == 15
SummaryMatch == 5
EngagementDivisor == 10
EngagementMax == 20
OfficialBonus == 10
DuplicateBonus == 20
MaxScore == 100
SecondsPerHour == 3600

\* hours_ago <= h, with hours_ago = total_seconds() / 3600
HoursAgoLE(age, h) == age <= h * SecondsPerHour

\* the time decay without the except branch of lines 51-52: a timestamp that
\* fails adds nothing
RecencyTermNoDefault(a) ==
    IF TruthyTime(a.published_at) /\ a.published_at.form = "aware"
    THEN IF HoursAgoLE(a.published_at.age, 24) THEN VeryFresh
         ELSE IF HoursAgoLE(a.published_at.age, 48) THEN Recent
         ELSE IF HoursAgoLE(a.published_at.age, 72) THEN SomewhatRecent
         ELSE Older
    ELSE 0

\* the time decay with the default of line 52 given to a missing timestamp too
RecencyTermDefaultAbsent(a) ==
    IF TruthyTime(a.published_at) /\ a.published_at.form = "aware"
    THEN IF HoursAgoLE(a.published_at.age, 24) THEN VeryFresh
         ELSE IF HoursAgoLE(a.published_at.age, 48) THEN Recent
         ELSE IF HoursAgoLE(a.published_at.age, 72) THEN SomewhatRecent
         ELSE Older
    ELSE UnparsedDefault

\* lines 35-52: the time decay; the bare except turns every failure into +10
\* (fromisoformat on a malformed string, and the subtraction of a naive
\* datetime from the aware now)
RecencyTerm(a) ==
    IF TruthyTime(a.published_at)
    THEN IF a.published_at.form = "aware"
         THEN IF HoursAgoLE(a.published_at.age, 24) THEN VeryFresh
              ELSE IF HoursAgoLE(a.published_at.age, 48) THEN Recent
              ELSE IF HoursAgoLE(a.published_at.age, 72) THEN SomewhatRecent
              ELSE Older
         ELSE UnparsedDefault
    ELSE 0

\* the keyword match on normalized titles: the title goes through
\* normalize_title before the comparisons of lines 60-63
KeywordTermNormalized(a, kw) ==
    IF Truthy(kw)
    THEN IF GetOrEmpty(a.title).k # "str" THEN Raise("AttributeError")
         ELSE IF GetOrEmpty(a.summary).k # "str" THEN Raise("AttributeError")
         ELSE LET keyword_lower == Lower(kw.v)
                  title_lower == normalize_title(GetOrEmpty(a.title).v)
                  summary_lower == Lower(GetOrEmpty(a.summary).v)
              IN  IF keyword_lower = title_lower THEN Ok(ExactMatch)
                  ELSE IF IsSubstring(keyword_lower, title_lower) THEN Ok(TitleMatch)
                  ELSE IF IsSubstring(keyword_lower, summary_lower) THEN Ok(SummaryMatch)
                  ELSE Ok(0)
    ELSE Ok(0)

\* the keyword match without the .lower() calls of lines 55-57
KeywordTermCaseSensitive(a, kw) ==
    IF Truthy(kw)
    THEN IF GetOrEmpty(a.title).k # "str" THEN Raise("AttributeError")
         ELSE IF GetOrEmpty(a.summary).k # "str" THEN Raise("AttributeError")
         ELSE LET keyword_lower == kw.v
                  title_lower == GetOrEmpty(a.title).v
                  summary_lower == GetOrEmpty(a.summary).v
              IN  IF keyword_lower = title_lower THEN Ok(ExactMatch)
                  ELSE IF IsSubstring(keyword_lower, title_lower) THEN Ok(TitleMatch)
                  ELSE IF IsSubstring(keyword_lower, summary_lower) THEN Ok(SummaryMatch)
                  ELSE Ok(0)
    ELSE Ok(0)

\* lines 54-65: keyword match quality; .lower() on None raises AttributeError
KeywordTerm(a, kw) ==
    IF Truthy(kw)
    THEN IF GetOrEmpty(a.title).k # "str" THEN Raise("AttributeError")
         ELSE IF GetOrEmpty(a.summary).k # "str" THEN Raise("AttributeError")
         ELSE LET keyword_lower == Lower(kw.v)
                  title_lower == Lower(GetOrEmpty(a.title).v)
                  summary_lower == Lower(GetOrEmpty(a.summary).v)
              IN  IF keyword_lower = title_lower THEN Ok(ExactMatch)
                  ELSE IF IsSubstring(keyword_lower, title_lower) THEN Ok(TitleMatch)
                  ELSE IF IsSubstring(keyword_lower, summary_lower) THEN Ok(SummaryMatch)
                  ELSE Ok(0)
    ELSE Ok(0)

\* the engagement bonus without the min(..., 20) of lines 69 and 73
EngagementTermUncapped(f) ==
    IF f.k = "absent" THEN Ok(0)
    ELSE IF f.k = "none" THEN Raise("TypeError")
    ELSE Ok(f.v \div EngagementDivisor)

\* lines 67-73: min(value // 10, 20) when the key is present; None // 10 raises
EngagementTerm(f) ==
    IF f.k = "absent" THEN Ok(0)
    ELSE IF f.k = "none" THEN Raise("TypeError")
    ELSE Ok(Min(f.v \div EngagementDivisor, EngagementMax))

\* the official bonus tested against the tag "official"
OfficialTermWrongTag(a) ==
    IF Get(a.category) = Name("official") THEN OfficialBonus ELSE 0

\* lines 75-77: official source bonus
OfficialTerm(a) ==
    IF Get(a.category) = Name("official_blog") THEN OfficialBonus ELSE 0

\* mutant: candidates already scored in place are skipped
SameTitleUnscored(a, title_normalized) ==
    /\ Truthy(Get(a.title))
    /\ normalize_title(a.title.v) = title_normalized
    /\ a.heat_score.k = "absent"

\* lines 84 and 120-121 without the a.get("title") test: a missing or empty
\* title is compared as the empty string
SameTitleNoGuard(a, title_normalized) ==
    normalize_title(IF Get(a.title).k = "str" THEN a.title.v ELSE <<>>) = title_normalized

\* lines 84 and 120-121: a has a title and it normalizes to title_normalized
SameTitle(a, title_normalized) ==
    Truthy(Get(a.title)) /\ normalize_title(a.title.v) = title_normalized

\* lines 85 and 122: a["source"] != article["source"], KeyError on a missing key
SourceLookupFails(a, art) == a.source.k = "absent" \/ art.source.k = "absent"

\* lines 82-86: the generator summed into duplicate_count
RECURSIVE DuplicateCount(_, _, _)
DuplicateCount(art, all, title_normalized) ==
    IF all = <<>> THEN 0
    ELSE (IF SameTitle(Head(all), title_normalized) /\ Head(all).source # art.source
          THEN 1 ELSE 0)
         + DuplicateCount(art, Tail(all), title_normalized)

\* mutant: the multi-source bonus capped at one duplicate
MultiSourceTermCapped(art, all) ==
    IF Truthy(Get(art.title))
    THEN LET title_normalized == normalize_title(art.title.v)
         IN  IF \E i \in DOMAIN all :
                    SameTitle(all[i], title_normalized) /\ SourceLookupFails(all[i], art)
             THEN Raise("KeyError")
             ELSE Ok(Min(DuplicateCount(art, all, title_normalized) * DuplicateBonus,
                         DuplicateBonus))
    ELSE Ok(0)

\* lines 79-87: the multi-source bonus
MultiSourceTerm(art, all) ==
    IF Truthy(Get(art.title))
    THEN LET title_normalized == normalize_title(art.title.v)
         IN  IF \E i \in DOMAIN all :
                    SameTitle(all[i], title_normalized) /\ SourceLookupFails(all[i], art)
             THEN Raise("KeyError")
             ELSE Ok(DuplicateCount(art, all, title_normalized) * DuplicateBonus)
    ELSE Ok(0)

\* line 90: the final normalisation
Clamp(score) == Min(score, MaxScore)

\* lines 10-90: calculate_heat_score(article, all_articles, keyword); the first
\* term that raises ends the call
calculate_heat_score(art, all, kw) ==
    LET kwt == KeywordTerm(art, kw)
        hn == EngagementTerm(art.hn_points)
        rd == EngagementTerm(art.reddit_upvotes)
        ms == MultiSourceTerm(art, all)
    IN  IF kwt.exc # "none" THEN kwt
        ELSE IF hn.exc # "none" THEN hn
        ELSE IF rd.exc # "none" THEN rd
        ELSE IF ms.exc # "none" THEN ms
        ELSE Ok(Clamp(BaseScore + RecencyTerm(art) + kwt.val + hn.val + rd.val
                      + OfficialTerm(art) + ms.val))

\* the loop of lines 118-123 breaking out after its first match
RECURSIVE DuplicateListFirst(_, _, _)
DuplicateListFirst(art, all, title_normalized) ==
    IF all = <<>> THEN <<>>
    ELSE IF SameTitle(Head(all), title_normalized) /\ Head(all).source # art.source
         THEN <<Head(all).source>>
         ELSE DuplicateListFirst(art, Tail(all), title_normalized)

\* the loop of lines 118-123 without the source comparison of line 122
RECURSIVE DuplicateListAnySource(_, _, _)
DuplicateListAnySource(art, all, title_normalized) ==
    IF all = <<>> THEN <<>>
    ELSE (IF SameTitle(Head(all), title_normalized)
          THEN <<Head(all).source>> ELSE <<>>)
         \o DuplicateListAnySource(art, Tail(all), title_normalized)

\* the loop of lines 118-123 collecting into a set: a source already collected
\* is not appended again
RECURSIVE DuplicateListDeduped(_, _, _)
DuplicateListDeduped(art, all, title_normalized) ==
    IF all = <<>> THEN <<>>
    ELSE LET front == DuplicateListDeduped(art, SubSeq(all, 1, Len(all) - 1), title_normalized)
             a == all[Len(all)]
         IN  IF /\ SameTitle(a, title_normalized) /\ a.source # art.source
                /\ \A k \in DOMAIN front : front[k] # a.source
             THEN Append(front, a.source) ELSE front

\* lines 118-123: the loop collecting a["source"] of every match, in list order
RECURSIVE DuplicateList(_, _, _)
DuplicateList(art, all, title_normalized) ==
    IF all = <<>> THEN <<>>
    ELSE (IF SameTitle(Head(all), title_normalized) /\ Head(all).source # art.source
          THEN <<Head(all).source>> ELSE <<>>)
         \o DuplicateList(art, Tail(all), title_normalized)

\* lines 102-125: find_duplicate_sources(article, all_articles)
find_duplicate_sources(art, all) ==
    IF ~Truthy(Get(art.title)) THEN [exc |-> "none", val |-> <<>>]
    ELSE LET title_normalized == normalize_title(art.title.v)
         IN  IF \E i \in DOMAIN all :
                    SameTitle(all[i], title_normalized) /\ SourceLookupFails(all[i], art)
             THEN [exc |-> "KeyError", val |-> <<>>]
             ELSE [exc |-> "none", val |-> DuplicateList(art, all, title_normalized)]

----------------------------------------------------------------------------
(* search_news.py: balance_sources *)

\* line 52: an article whose source is missing, None or empty is skipped
SkipArticle(source) == ~TruthyName(source)

\* source_counts[source] on the defaultdict(int)
CountOf(source_counts, source) ==
    IF source \in DOMAIN source_counts THEN source_counts[source] ELSE 0

\* mutant: the cap test off by one
BelowCapInclusive(count, cap) == count <= cap

\* line 55: the cap test
BelowCap(count, cap) == count < cap

\* mutant: the article is put in front
EmitFront(balanced, a) == <<a>> \o balanced

\* line 56: balanced.append(article)
Emit(balanced, a) == Append(balanced, a)

\* mutant: the count is never incremented
NoIncrement(source_counts, source) == source_counts

\* line 57: source_counts[source] += 1
Increment(source_counts, source) ==
    [s \in DOMAIN source_counts \cup {source} |->
        IF s = source THEN CountOf(source_counts, source) + 1 ELSE source_counts[s]]

\* lines 49-57: the loop over the articles still to visit
RECURSIVE BalanceLoop(_, _, _, _)
BalanceLoop(rest, cap, source_counts, balanced) ==
    IF rest = <<>> THEN balanced
    ELSE LET a == Head(rest)
             source == Get(a.source)
         IN  IF SkipArticle(source)
             THEN BalanceLoop(Tail(rest), cap, source_counts, balanced)
             ELSE IF BelowCap(CountOf(source_counts, source.v), cap)
                  THEN BalanceLoop(Tail(rest), cap,
                                   Increment(source_counts, source.v), Emit(balanced, a))
                  ELSE BalanceLoop(Tail(rest), cap, source_counts, balanced)

\* lines 35-59: balance_sources(articles, max_per_source)
balance_sources(articles, cap) == BalanceLoop(articles, cap, <<>>, <<>>)

----------------------------------------------------------------------------
(* search_news.py: the sort of line 126 *)

\* mutant: ascending order
StaysBeforeAscending(placed, later) == placed.heat_score.v <= later.heat_score.v

\* mutant: descending order with ties reversed (an ascending sort, reversed)
StaysBeforeStrict(placed, later) == placed.heat_score.v > later.heat_score.v

\* list.sort(key=heat_score, reverse=True) is stable: an element already placed
\* stays before a later element unless the later one has a greater key
StaysBefore(placed, later) == placed.heat_score.v >= later.heat_score.v

RECURSIVE InsertSorted(_, _)
InsertSorted(s, x) ==
    IF s = <<>> THEN <<x>>
    ELSE IF StaysBefore(Head(s), x)
         THEN <<Head(s)>> \o InsertSorted(Tail(s), x)
         ELSE <<x>> \o s

RECURSIVE SortInto(_, _)
SortInto(acc, rest) ==
    IF rest = <<>> THEN acc ELSE SortInto(InsertSorted(acc, Head(rest)), Tail(rest))

\* line 126: articles_list.sort(key=lambda x: x["heat_score"], reverse=True)
SortByHeat(l) == SortInto(<<>>, l)

----------------------------------------------------------------------------
(* Input values *)

SummaryGpt == <<"g", "p", "t", " ", "n", "e", "w", "s">>
KeywordGpt == <<"g", "p", "t">>

Keywords == {None, Str(<<>>), Str(KeywordGpt)}

SeqsUpTo(S, n) == UNION {[1 .. m -> S] : m \in 0 .. n}

WithOid(a, o) == [a EXCEPT !.oid = o]

\* the oid of every article is its position in the list
Numbered(l) == [i \in DOMAIN l |-> WithOid(l[i], i)]

\* the text fields vary, the other fields are missing
TextArticles ==
    {Article(0, t, sm, src, AbsentTime, AbsentInt, AbsentInt, AbsentName) :
        t \in {Absent, None, Str(<<>>), Str(TitleGPT), Str(TitleGpt5a), Str(TitleOpenAI1),
                Str(TitleBang), Str(TitleSpacedGPT)},
        sm \in {Absent, None, Str(SummaryGpt)},
        src \in {AbsentName, Name("TechCrunch")}}

TimeValues ==
    {AbsentTime, NoneTime, Time("empty", 0), Time("bad", 0), Time("naive", 0)}
    \cup {Time("aware", age) :
            age \in {-3600, 0, 86400, 86401, 172800, 172801, 259200, 259201}}

\* published_at varies
TimedArticles ==
    {Article(0, Str(t), Absent, Name("TechCrunch"), pub, AbsentInt, AbsentInt, AbsentName) :
        t \in {TitleGPT, TitleGpt5a}, pub \in TimeValues}

\* the engagement counts and the category vary
EngagementArticles ==
    {Article(0, Str(TitleGpt5a), Absent, Name("TechCrunch"), AbsentTime, hn, rd, cat) :
        hn \in {AbsentInt, NoneInt, Int_(-300), Int_(-5), Int_(0), Int_(9), Int_(95), Int_(250)},
        rd \in {AbsentInt, Int_(15), Int_(1000)},
        cat \in {AbsentName, Name("official_blog"), Name("general")}}

\* the source varies
SourcedArticles ==
    {Article(0, Str(TitleGpt5a), Absent, src, AbsentTime, AbsentInt, AbsentInt, AbsentName) :
        src \in {NoneName, Name(""), Name("The Verge")}}

\* the targets of calculate_heat_score and find_duplicate_sources
TargetArticles == TextArticles \cup TimedArticles \cup EngagementArticles \cup SourcedArticles

Plain(t, src) == Article(0, t, Absent, src, AbsentTime, AbsentInt, AbsentInt, AbsentName)

\* the other candidates of the list
ContextArticles ==
    {Plain(Str(TitleOpenAI2), Name("The Verge")),
     Plain(Str(TitleGpt5b), Name("The Verge")),
     Plain(Str(TitleGpt5a), Name("Wired")),
     Plain(Str(TitleGpt5b), Name("TechCrunch")),
     Plain(Str(TitleGpt5b), AbsentName),
     Plain(Str(<<>>), Name("The Verge"))}

\* the articles search_news collects
CollectedArticles ==
    {Plain(Absent, AbsentName),
     Plain(Absent, Name("TechCrunch")),
     Plain(Str(TitleGpt5a), AbsentName),
     Plain(Str(TitleGpt5a), Name("TechCrunch")),
     Plain(Str(TitleGpt5b), Name("TechCrunch")),
     Plain(Str(TitleGpt5b), Name("The Verge"))}

\* the inputs of balance_sources: only the source matters
BalanceArticles ==
    {Plain(Absent, src) :
        src \in {AbsentName, NoneName, Name(""), Name("A"), Name("B"), Name("C")}}

NoArticle == Plain(Absent, AbsentName)

----------------------------------------------------------------------------
(* search_news.py: search_news, from the loop over the sources to the result *)

Init ==
    /\ OtherIdle
    /\ pc = "fetch"
    /\ keyword \in {None, Str(KeywordGpt)}
    /\ sources_left \in 0 .. MaxSources
    /\ articles_list = <<>>
    /\ idx = 0
    /\ exc = "none"
    /\ balance = FALSE
    /\ max_per_source = 0
    /\ results = <<>>
    /\ collected = <<>>
    /\ sorted_list = <<>>
    /\ article = NoArticle
    /\ all_articles = <<>>
    /\ score_result = Ok(0)
    /\ dup_result = Ok(<<>>)

scoring_vars == <<article, all_articles, score_result, dup_result>>

\* lines 95-117, an iteration that adds nothing: the source is disabled, its
\* type is unsupported, or its parser raised
SourceSkipped ==
    /\ pc = "fetch"
    /\ sources_left > 0
    /\ sources_left' = sources_left - 1
    /\ UNCHANGED <<pc, keyword, articles_list, idx, exc, balance, max_per_source,
                   results, collected, sorted_list, scoring_vars, other_vars>>

\* lines 95-113, an iteration whose parser returned a list: articles_list.extend
SourceFetched ==
    /\ pc = "fetch"
    /\ sources_left > 0
    /\ \E batch \in SeqsUpTo(CollectedArticles, MaxArticles - Len(articles_list)) :
           articles_list' = Numbered(articles_list \o batch)
    /\ sources_left' = sources_left - 1
    /\ UNCHANGED <<pc, keyword, idx, exc, balance, max_per_source,
                   results, collected, sorted_list, scoring_vars, other_vars>>

\* lines 119-121: the loop over the sources is over, the scoring loop starts
BeginScoring ==
    /\ pc = "fetch"
    /\ sources_left = 0
    /\ pc' = "score"
    /\ idx' = 0
    /\ collected' = articles_list
    /\ UNCHANGED <<keyword, articles_list, sources_left, exc, balance, max_per_source,
                   results, sorted_list, scoring_vars, other_vars>>

\* lines 121-123: one iteration of the scoring loop; both values are computed
\* against articles_list as it is now and written into the article in place
ScoreArticle ==
    /\ pc = "score"
    /\ idx < Len(articles_list)
    /\ LET i == idx + 1
           hs == calculate_heat_score(articles_list[i], articles_list, keyword)
           scored == [articles_list EXCEPT ![i].heat_score = Int_(hs.val)]
           ds == find_duplicate_sources(scored[i], scored)
       IN  IF hs.exc # "none"
           THEN /\ pc' = "raised"
                /\ exc' = hs.exc
                /\ UNCHANGED <<articles_list, idx>>
           ELSE IF ds.exc # "none"
           THEN /\ pc' = "raised"
                /\ exc' = ds.exc
                /\ articles_list' = scored
                /\ UNCHANGED idx
           ELSE /\ articles_list' = [scored EXCEPT ![i].duplicate_sources = Written(ds.val)]
                /\ idx' = i
                /\ UNCHANGED <<pc, exc>>
    /\ UNCHANGED <<keyword, sources_left, balance, max_per_source,
                   results, collected, sorted_list, scoring_vars, other_vars>>

\* the sort of lines 125-126 reading the first article: an empty list raises
SortArticlesNeedsFirst ==
    /\ pc = "score"
    /\ idx = Len(articles_list)
    /\ IF articles_list = <<>>
       THEN /\ pc' = "raised"
            /\ exc' = "IndexError"
            /\ UNCHANGED <<articles_list, sorted_list>>
       ELSE /\ articles_list' = SortByHeat(articles_list)
            /\ sorted_list' = articles_list'
            /\ pc' = "balance"
            /\ UNCHANGED exc
    /\ UNCHANGED <<keyword, idx, sources_left, balance, max_per_source,
                   results, collected, scoring_vars, other_vars>>

\* lines 125-126: the sort
SortArticles ==
    /\ pc = "score"
    /\ idx = Len(articles_list)
    /\ articles_list' = SortByHeat(articles_list)
    /\ sorted_list' = articles_list'
    /\ pc' = "balance"
    /\ UNCHANGED <<keyword, idx, sources_left, exc, balance, max_per_source,
                   results, collected, scoring_vars, other_vars>>

\* lines 128-141 with balance true; the parameters balance and max_per_source
\* are first read here, so the model draws them here
Balance ==
    /\ pc = "balance"
    /\ balance' = TRUE
    /\ max_per_source' \in 0 .. MaxCap
    /\ articles_list' = balance_sources(articles_list, max_per_source')
    /\ results' = articles_list'
    /\ pc' = "done"
    /\ UNCHANGED <<keyword, idx, sources_left, exc, collected, sorted_list, scoring_vars, other_vars>>

\* lines 128-141 with balance false
NoBalance ==
    /\ pc = "balance"
    /\ balance' = FALSE
    /\ results' = articles_list
    /\ pc' = "done"
    /\ UNCHANGED <<keyword, articles_list, idx, sources_left, exc, max_per_source,
                   collected, sorted_list, scoring_vars, other_vars>>

Next ==
    \/ SourceSkipped
    \/ SourceFetched
    \/ BeginScoring
    \/ ScoreArticle
    \/ SortArticles
    \/ Balance
    \/ NoBalance

Spec == Init /\ [][Next]_vars

----------------------------------------------------------------------------
(* heat_calculator.py: the two functions applied to one target, as the     *)
(* self-test does (lines 165-167): the target is a member of the list      *)

pipeline_vars == <<articles_list, idx, sources_left, exc, balance, max_per_source,
                   results, collected, sorted_list>>

InitScore ==
    /\ OtherIdle
    /\ pc = "call"
    /\ keyword \in Keywords
    /\ article \in TargetArticles
    /\ \E context \in SeqsUpTo(ContextArticles, MaxContext) :
           all_articles = context \o <<article>>
    /\ score_result = Ok(0)
    /\ dup_result = Ok(<<>>)
    /\ articles_list = <<>>
    /\ idx = 0
    /\ sources_left = 0
    /\ exc = "none"
    /\ balance = FALSE
    /\ max_per_source = 0
    /\ results = <<>>
    /\ collected = <<>>
    /\ sorted_list = <<>>

\* line 166: score = calculate_heat_score(article, test_articles, keyword)
CallCalculateHeatScore ==
    /\ pc = "call"
    /\ score_result' = calculate_heat_score(article, all_articles, keyword)
    /\ pc' = "scored"
    /\ UNCHANGED <<keyword, article, all_articles, dup_result, pipeline_vars, other_vars>>

\* line 167: duplicates = find_duplicate_sources(article, test_articles)
CallFindDuplicateSources ==
    /\ pc = "scored"
    /\ dup_result' = find_duplicate_sources(article, all_articles)
    /\ pc' = "returned"
    /\ UNCHANGED <<keyword, article, all_articles, score_result, pipeline_vars, other_vars>>

NextScore ==
    \/ CallCalculateHeatScore
    \/ CallFindDuplicateSources

SpecScore == InitScore /\ [][NextScore]_vars

----------------------------------------------------------------------------
(* search_news.py: balance_sources applied to one list *)

InitBalance ==
    /\ OtherIdle
    /\ pc = "balance_call"
    /\ \E l \in SeqsUpTo(BalanceArticles, MaxBalanceLen) : articles_list = Numbered(l)
    /\ max_per_source \in 0 .. MaxCap
    /\ results = <<>>
    /\ keyword = None
    /\ idx = 0
    /\ sources_left = 0
    /\ exc = "none"
    /\ balance = TRUE
    /\ collected = <<>>
    /\ sorted_list = <<>>
    /\ article = NoArticle
    /\ all_articles = <<>>
    /\ score_result = Ok(0)
    /\ dup_result = Ok(<<>>)

\* line 131: balance_sources(articles_list, max_per_source)
CallBalanceSources ==
    /\ pc = "balance_call"
    /\ results' = balance_sources(articles_list, max_per_source)
    /\ pc' = "balanced"
    /\ UNCHANGED <<keyword, articles_list, idx, sources_left, exc, balance,
                   max_per_source, collected, sorted_list, scoring_vars, other_vars>>

NextBalance == CallBalanceSources

SpecBalance == InitBalance /\ [][NextBalance]_vars

----------------------------------------------------------------------------
(* Properties *)

\* every article of l has the key "source"
AllHaveSourceKey(l) == \A i \in DOMAIN l : l[i].source.k # "absent"

\* C1: calculate_heat_score returns an integer h with 0 <= h <= 100 for every
\* record, candidate list and keyword, whatever integers the engagement fields
\* hold.  (Violated: the code clamps only from above.)
C1_HeatScoreInRange ==
    (pc \in {"scored", "returned"} /\ score_result.exc = "none")
        => (0 <= score_result.val /\ score_result.val <= 100)

\* C2: when the collected list holds a record with no "source" key, scoring
\* and sorting complete without error, the record is in the sorted list and it
\* is absent from the balanced output.  (Violated: scoring raises KeyError.)
C2_MissingSourceSurvivesScoring ==
    \A i \in DOMAIN collected :
        collected[i].source.k = "absent" =>
            /\ pc # "raised"
            /\ pc \in {"balance", "done"} =>
                   \E j \in DOMAIN sorted_list : sorted_list[j].oid = collected[i].oid
            /\ (pc = "done" /\ balance) =>
                   \A j \in DOMAIN results : results[j].oid # collected[i].oid

\* C3: one malformed field value (a null title or summary, a null engagement
\* count, an unparsable published_at) never makes calculate_heat_score or
\* find_duplicate_sources raise: both return a value for the record.
\* (Violated: a null title or summary raises AttributeError, a null count
\* TypeError.)  Lists with a missing "source" key are left to C2.
C3_NoRaiseOnMalformedRecord ==
    AllHaveSourceKey(all_articles) =>
        /\ pc \in {"scored", "returned"} => score_result.exc = "none"
        /\ pc = "returned" => dup_result.exc = "none"

\* the list `original` after the articles at the positions S were scored in place
ScoredAt(original, S, kw) ==
    [i \in DOMAIN original |->
        IF i \in S /\ calculate_heat_score(original[i], original, kw).exc = "none"
        THEN [original[i] EXCEPT
                 !.heat_score = Int_(calculate_heat_score(original[i], original, kw).val),
                 !.duplicate_sources = Written(find_duplicate_sources(original[i], original).val)]
        ELSE original[i]]

\* C4: the heat_score and duplicate_sources written into each record equal the
\* values computed against the original unscored list, and scoring a record
\* against the list with any subset of records already scored in place gives
\* the same outcome as scoring it against the original list (so every scoring
\* order gives the same results).
C4_ScoresUseOriginalList ==
    /\ pc \in {"score", "balance", "done"} =>
           \A i \in DOMAIN articles_list :
               LET a == articles_list[i]
                   o == collected[a.oid]
               IN  /\ a.heat_score.k = "int" =>
                          calculate_heat_score(o, collected, keyword) = Ok(a.heat_score.v)
                   /\ a.duplicate_sources.k = "list" =>
                          find_duplicate_sources(o, collected) = Ok(a.duplicate_sources.v)
    /\ (pc = "score" /\ idx = 0) =>
           \A partly \in {ScoredAt(collected, S, keyword) : S \in SUBSET (DOMAIN collected)} :
               \A i \in DOMAIN collected :
                   /\ calculate_heat_score(partly[i], partly, keyword)
                          = calculate_heat_score(collected[i], collected, keyword)
                   /\ find_duplicate_sources(partly[i], partly)
                          = find_duplicate_sources(collected[i], collected)

\* the record scored last has a duplicate among the records scored before it
C4_Witness ==
    /\ pc = "score"
    /\ idx = Len(articles_list)
    /\ idx >= 2
    /\ articles_list[idx].duplicate_sources.v # <<>>
    /\ articles_list[idx].heat_score.v >= 40

NonIncreasing(l) ==
    \A p, q \in DOMAIN l : p < q => l[p].heat_score.v >= l[q].heat_score.v

\* C5: the output list of search_news is in non-increasing heat_score order,
\* with balancing disabled and with balancing enabled.
C5_OutputDescending ==
    /\ pc \in {"balance", "done"} => NonIncreasing(sorted_list)
    /\ pc = "done" => NonIncreasing(results)

\* a balanced output that the sort reordered and the balancer shortened
C5_Witness ==
    /\ pc = "done"
    /\ balance
    /\ Len(results) >= 2
    /\ Len(results) < Len(sorted_list)
    /\ results[1].oid > results[2].oid
    /\ results[1].heat_score.v > results[2].heat_score.v

\* C6: the sort is stable: two records with equal heat_score are in the sorted
\* list in the relative order they had before the sort (oid is the position
\* before the sort).
C6_SortStable ==
    pc \in {"balance", "done"} =>
        /\ Len(sorted_list) = Len(collected)
        /\ \A p, q \in DOMAIN sorted_list :
               (p < q /\ sorted_list[p].heat_score.v = sorted_list[q].heat_score.v)
                   => sorted_list[p].oid < sorted_list[q].oid

\* a sort that moved a pair of tied records in front of an earlier record
C6_Witness ==
    /\ pc = "balance"
    /\ Len(sorted_list) >= 3
    /\ sorted_list[1].oid > 1
    /\ sorted_list[1].heat_score.v = sorted_list[2].heat_score.v
    /\ sorted_list[2].heat_score.v > sorted_list[3].heat_score.v

\* the source identifiers (non-empty strings) of the articles of l
SourcesOf(l) == {l[i].source.v : i \in {j \in DOMAIN l : TruthyName(Get(l[j].source))}}

\* the positions of l whose source is the identifier s
PositionsOf(l, s) == {i \in DOMAIN l : l[i].source = Name(s)}

\* C7: in the output of balance_sources no source identifier appears more than
\* max_per_source times and no record with a missing or empty source appears;
\* the output size is at most distinct sources x cap and at most the input size.
C7_BalanceBounded ==
    pc = "balanced" =>
        /\ \A s \in SourcesOf(articles_list) \cup SourcesOf(results) :
               Cardinality(PositionsOf(results, s)) <= max_per_source
        /\ \A j \in DOMAIN results : TruthyName(Get(results[j].source))
        /\ Len(results) <= Cardinality(SourcesOf(articles_list)) * max_per_source
        /\ Len(results) <= Len(articles_list)

\* a source over the cap and a record without source in the input
C7_Witness ==
    /\ pc = "balanced"
    /\ max_per_source = 2
    /\ Cardinality(PositionsOf(articles_list, "A")) >= 3
    /\ Cardinality(PositionsOf(results, "A")) = 2
    /\ \E i \in DOMAIN articles_list : articles_list[i].source.k = "absent"

\* C8: the output of balance_sources is a subsequence of its input: every
\* output record is the input record at its position, no record is emitted
\* twice and the relative order is that of the input.
C8_BalanceSubsequence ==
    pc = "balanced" =>
        /\ \A j \in DOMAIN results :
               /\ results[j].oid \in DOMAIN articles_list
               /\ results[j] = articles_list[results[j].oid]
        /\ \A j, k \in DOMAIN results : j < k => results[j].oid < results[k].oid

\* a record was dropped between two emitted ones
C8_Witness ==
    /\ pc = "balanced"
    /\ Len(results) >= 3
    /\ \E j \in 1 .. (Len(results) - 1) : results[j + 1].oid > results[j].oid + 1

\* C9: a record with a source is emitted iff fewer than cap records of the
\* same source precede it in the input; for every source the output holds
\* exactly the first min(cap, count) records of that source; records without
\* a source are neither emitted nor counted.
C9_BalanceGreedy ==
    pc = "balanced" =>
        /\ \A i \in DOMAIN articles_list :
               (\E j \in DOMAIN results : results[j].oid = i)
                   <=> /\ TruthyName(Get(articles_list[i].source))
                       /\ Cardinality({q \in 1 .. (i - 1) :
                              articles_list[q].source = articles_list[i].source})
                              < max_per_source
        /\ \A s \in SourcesOf(articles_list) :
               LET ofS(a) == a.source = Name(s)
                   inS == SelectSeq(articles_list, ofS)
               IN  SelectSeq(results, ofS) = SubSeq(inS, 1, Min(max_per_source, Len(inS)))

\* a record over the cap is dropped, a later record of another source is
\* emitted, and a record without source comes first
C9_Witness ==
    /\ pc = "balanced"
    /\ max_per_source = 1
    /\ Len(articles_list) = 4
    /\ ~TruthyName(Get(articles_list[1].source))
    /\ articles_list[2].source = Name("A")
    /\ articles_list[3].source = Name("A")
    /\ articles_list[4].source = Name("B")
    /\ Len(results) = 2

\* the other candidates with the target's normalized title and another source
\* (the target is the last element of all_articles)
Corroborators ==
    {j \in 1 .. (Len(all_articles) - 1) :
        /\ Truthy(Get(all_articles[j].title))
        /\ normalize_title(all_articles[j].title.v) = normalize_title(article.title.v)
        /\ all_articles[j].source # article.source}

\* the score without the corroboration term, before the clamp
OtherTerms ==
    20 + RecencyTerm(article) + KeywordTerm(article, keyword).val
       + EngagementTerm(article.hn_points).val + EngagementTerm(article.reddit_upvotes).val
       + OfficialTerm(article)

\* C10: for a record with a non-empty title the corroboration term is 20 times
\* the number of other records with the same normalized title and a different
\* source, capped only by the final clamp; the records titled "OpenAI
\* Announces GPT-5" and "OpenAI announces GPT-5!" from different sources get
\* each other's source as duplicate_sources and +20 each.
C10_Corroboration ==
    /\ (pc \in {"scored", "returned"} /\ Truthy(Get(article.title))
            /\ score_result.exc = "none")
           => score_result.val = Min(100, OtherTerms + 20 * Cardinality(Corroborators))
    /\ (pc = "returned" /\ Len(all_articles) = 2
            /\ {article.title, all_articles[1].title} = {Str(TitleOpenAI1), Str(TitleOpenAI2)}
            /\ AllHaveSourceKey(all_articles)
            /\ all_articles[1].source # article.source
            /\ score_result.exc = "none")
           => /\ dup_result = Ok(<<all_articles[1].source>>)
              /\ find_duplicate_sources(all_articles[1], all_articles) = Ok(<<article.source>>)
              /\ score_result.val = Min(100, OtherTerms + 20)
              /\ calculate_heat_score(all_articles[1], all_articles, keyword)
                     = Ok(Min(100, 20 + 20 + KeywordTerm(all_articles[1], keyword).val))

\* two corroborating sources: +40, above any per-term cap of 20, below the clamp
C10_Witness ==
    /\ pc = "returned"
    /\ score_result = Ok(60)
    /\ Cardinality(Corroborators) = 2
    /\ dup_result = Ok(<<Name("The Verge"), Name("Wired")>>)

----------------------------------------------------------------------------
(* find_duplicate_sources on the records of one list *)

RemoveAt(l, j) == SubSeq(l, 1, j - 1) \o SubSeq(l, j + 1, Len(l))

\* the list returned for the record at position i; the call of the target
\* (the last position) is the one the state holds
DuplicatesOf(i) ==
    IF i = Len(all_articles) THEN dup_result
    ELSE find_duplicate_sources(all_articles[i], all_articles)

\* the record at position j adds an entry to the list of the record at i:
\* without it the list is shorter
Contributes(i, j) ==
    Len(DuplicatesOf(i).val)
        > Len(find_duplicate_sources(all_articles[i], RemoveAt(all_articles, j)).val)

\* no other record of the list has the source of the record at position j
UniqueSource(j) ==
    \A k \in DOMAIN all_articles : k # j => all_articles[k].source # all_articles[j].source

\* C11: duplicate detection is symmetric: for two records A and B of one
\* list, B's source is in find_duplicate_sources(A) because of B exactly when
\* A's source is in find_duplicate_sources(B) because of A.
C11_DuplicateSymmetric ==
    pc = "returned" =>
        \A i, j \in DOMAIN all_articles :
            (i # j /\ DuplicatesOf(i).exc = "none" /\ DuplicatesOf(j).exc = "none")
            => /\ Contributes(i, j) <=> Contributes(j, i)
               /\ Contributes(i, j) =>
                      /\ \E k \in DOMAIN DuplicatesOf(i).val :
                             DuplicatesOf(i).val[k] = all_articles[j].source
                      /\ \E k \in DOMAIN DuplicatesOf(j).val :
                             DuplicatesOf(j).val[k] = all_articles[i].source
               /\ (UniqueSource(i) /\ UniqueSource(j)) =>
                      ((\E k \in DOMAIN DuplicatesOf(i).val :
                             DuplicatesOf(i).val[k] = all_articles[j].source)
                       <=> (\E k \in DOMAIN DuplicatesOf(j).val :
                             DuplicatesOf(j).val[k] = all_articles[i].source))

\* three records of one story from three sources: each lists the other two
C11_Witness ==
    /\ pc = "returned"
    /\ Len(all_articles) = 3
    /\ dup_result = Ok(<<Name("The Verge"), Name("Wired")>>)
    /\ find_duplicate_sources(all_articles[1], all_articles)
           = Ok(<<Name("Wired"), Name("TechCrunch")>>)
    /\ Contributes(3, 1) /\ Contributes(1, 3)

\* C12: duplicate_sources never contains the record's own source, also when
\* several records of that source share the normalized title.
C12_OwnSourceExcluded ==
    pc = "returned" =>
        \A i \in DOMAIN all_articles :
            DuplicatesOf(i).exc = "none" =>
                \A k \in DOMAIN DuplicatesOf(i).val :
                    DuplicatesOf(i).val[k] # all_articles[i].source

\* the target's source has a second record with the same normalized title,
\* and another source has one too
C12_Witness ==
    /\ pc = "returned"
    /\ Len(all_articles) = 3
    /\ Truthy(Get(article.title))
    /\ \E j \in 1 .. 2 :
           /\ SameTitle(all_articles[j], normalize_title(article.title.v))
           /\ all_articles[j].source = article.source
    /\ dup_result = Ok(<<Name("The Verge")>>)

\* the positions of the candidates with the target's normalized title and
\* another source (the target's own position never qualifies)
MatchPositions ==
    {j \in DOMAIN all_articles :
        /\ Truthy(Get(all_articles[j].title))
        /\ normalize_title(all_articles[j].title.v) = normalize_title(article.title.v)
        /\ all_articles[j].source # article.source}

\* the k-th smallest element of a set of positions
KthPosition(P, k) == CHOOSE p \in P : Cardinality({q \in P : q < p}) = k - 1

\* C13: find_duplicate_sources returns exactly the sequence of the sources of
\* the candidates with an equal normalized title and a different source, one
\* entry per matching record, in input order, repeats allowed.
C13_DuplicateSequence ==
    (pc = "returned" /\ Truthy(Get(article.title)) /\ dup_result.exc = "none")
        => /\ Len(dup_result.val) = Cardinality(MatchPositions)
           /\ \A k \in DOMAIN dup_result.val :
                  dup_result.val[k] = all_articles[KthPosition(MatchPositions, k)].source

\* two matching records of one source: the source is listed twice
C13_Witness ==
    /\ pc = "returned"
    /\ dup_result = Ok(<<Name("The Verge"), Name("The Verge")>>)
    /\ Cardinality(MatchPositions) = 2

----------------------------------------------------------------------------
(* calculate_heat_score, term by term *)

\* the engagement and official terms of the target
EngagementAndOfficial ==
    EngagementTerm(article.hn_points).val + EngagementTerm(article.reddit_upvotes).val
        + OfficialTerm(article)

\* the keyword bonus a record can get from its summary alone
SummaryOnlyBonus ==
    IF Truthy(keyword) /\ Get(article.summary).k = "str"
          /\ IsSubstring(Lower(keyword.v), Lower(article.summary.v))
    THEN 5 ELSE 0

\* C14: when the target's title is empty or missing, find_duplicate_sources
\* returns the empty sequence without comparing against any candidate, and
\* calculate_heat_score adds no corroboration bonus and no keyword-in-title
\* bonus; a record with such a title is never counted as a duplicate of
\* another record.
C14_UntitledRecord ==
    /\ (pc = "returned" /\ ~Truthy(Get(article.title))) => dup_result = Ok(<<>>)
    /\ (pc \in {"scored", "returned"} /\ ~Truthy(Get(article.title))
            /\ score_result.exc = "none")
           => score_result.val
                  = Min(100, 20 + RecencyTerm(article) + SummaryOnlyBonus
                                + EngagementAndOfficial)
    /\ \A j \in 1 .. (Len(all_articles) - 1) :
           ~Truthy(Get(all_articles[j].title))
           => /\ pc \in {"scored", "returned"}
                     => score_result
                            = calculate_heat_score(article, RemoveAt(all_articles, j), keyword)
              /\ pc = "returned"
                     => dup_result
                            = find_duplicate_sources(article, RemoveAt(all_articles, j))

\* an untitled target whose summary holds the keyword, in a list with another
\* untitled record and a titled record without a source key
C14_Witness ==
    /\ pc = "returned"
    /\ article.title = Str(<<>>)
    /\ keyword = Str(KeywordGpt)
    /\ Len(all_articles) = 3
    /\ \E j \in 1 .. 2 : all_articles[j].title = Str(<<>>)
    /\ \E j \in 1 .. 2 : all_articles[j].source.k = "absent"
                             /\ Truthy(Get(all_articles[j].title))
    /\ score_result = Ok(25)
    /\ dup_result = Ok(<<>>)

\* one of the terms other than the time decay raises
NonRecencyRaises ==
    \/ KeywordTerm(article, keyword).exc # "none"
    \/ EngagementTerm(article.hn_points).exc # "none"
    \/ EngagementTerm(article.reddit_upvotes).exc # "none"
    \/ MultiSourceTerm(article, all_articles).exc # "none"

\* the sum of the terms other than the base score and the time decay
NonRecencyTerms ==
    KeywordTerm(article, keyword).val + EngagementAndOfficial
        + MultiSourceTerm(article, all_articles).val

\* C15: when published_at is present and non-empty but is not an ISO 8601
\* timestamp, calculate_heat_score does not raise on it and the recency term
\* is exactly +10.
C15_UnparsableTimestamp ==
    (pc \in {"scored", "returned"} /\ TruthyTime(article.published_at)
         /\ article.published_at.form = "bad" /\ ~NonRecencyRaises)
        => score_result = Ok(Min(100, 20 + 10 + NonRecencyTerms))

\* an unparsable timestamp on a record scored without a keyword: 20 + 10
C15_Witness ==
    /\ pc = "scored"
    /\ article.published_at = Time("bad", 0)
    /\ keyword = None
    /\ Len(all_articles) = 1
    /\ score_result = Ok(30)

\* the bucket of an age given in seconds
AgeBucket(age) ==
    IF age <= 24 * 3600 THEN 40
    ELSE IF age <= 48 * 3600 THEN 28
    ELSE IF age <= 72 * 3600 THEN 16
    ELSE 8

\* C16: when published_at parses, exactly one recency bucket applies, chosen
\* by the age h in hours: h <= 24 adds 40, 24 < h <= 48 adds 28, 48 < h <= 72
\* adds 16, h > 72 adds 8; the boundaries belong to the fresher bucket.
\* (Violated: a timestamp without a UTC offset parses, and gets +10.)
C16_RecencyBuckets ==
    (pc \in {"scored", "returned"} /\ TruthyTime(article.published_at)
         /\ article.published_at.form \in {"naive", "aware"} /\ ~NonRecencyRaises)
        => score_result
               = Ok(Min(100, 20 + AgeBucket(article.published_at.age) + NonRecencyTerms))

\* the record carries neither engagement field
NoEngagement ==
    article.hn_points.k = "absent" /\ article.reddit_upvotes.k = "absent"

\* C17: a record with no published_at, category "official_blog", no
\* engagement fields and no duplicates, scored with an absent or empty
\* keyword, gets exactly 30: the absent timestamp contributes no recency term.
C17_OfficialUndated ==
    (pc \in {"scored", "returned"}
         /\ article.published_at.k \in {"absent", "none"}
         /\ Get(article.category) = Name("official_blog")
         /\ NoEngagement
         /\ MatchPositions = {}
         /\ ~Truthy(keyword))
        => /\ score_result.exc = "none" => score_result.val = 30
           /\ AllHaveSourceKey(all_articles) => score_result = Ok(30)

\* an undated official record among candidates with other titles
C17_Witness ==
    /\ pc = "scored"
    /\ article.published_at = AbsentTime
    /\ article.category = Name("official_blog")
    /\ NoEngagement
    /\ keyword = Str(<<>>)
    /\ Len(all_articles) = 2
    /\ MatchPositions = {}
    /\ score_result = Ok(30)

\* C18 as stated: a record whose published_at is absent receives a flat
\* default recency bonus, a non-zero recency contribution on top of the base
\* 20 (visible whenever the clamp does not hide it).
C18_AbsentGetsDefault ==
    (pc \in {"scored", "returned"} /\ article.published_at.k = "absent"
         /\ ~NonRecencyRaises /\ 20 + NonRecencyTerms < 100)
        => /\ score_result.exc = "none"
           /\ score_result.val # 20 + NonRecencyTerms

\* C18, amended: a record whose published_at is absent, None or empty gets no
\* recency contribution at all; its score is the base 20 plus the other terms.
C18_AbsentGetsNothing ==
    (pc \in {"scored", "returned"} /\ ~TruthyTime(article.published_at)
         /\ ~NonRecencyRaises)
        => score_result = Ok(Min(100, 20 + NonRecencyTerms))

\* an undated record whose title holds the keyword: 20 + 15
C18_Witness ==
    /\ pc = "scored"
    /\ article.published_at = AbsentTime
    /\ keyword = Str(KeywordGpt)
    /\ article.title = Str(TitleGpt5a)
    /\ NoEngagement
    /\ Len(all_articles) = 1
    /\ score_result = Ok(35)

\* the keyword bucket, read off the lowercased raw strings
KeywordBucket ==
    LET k == Lower(keyword.v)
        t == Lower(GetOrEmpty(article.title).v)
        sm == Lower(GetOrEmpty(article.summary).v)
    IN  IF k = t THEN 30
        ELSE IF IsSubstring(k, t) THEN 15
        ELSE IF IsSubstring(k, sm) THEN 5
        ELSE 0

\* one of the terms other than the keyword match raises
NonKeywordRaises ==
    \/ EngagementTerm(article.hn_points).exc # "none"
    \/ EngagementTerm(article.reddit_upvotes).exc # "none"
    \/ MultiSourceTerm(article, all_articles).exc # "none"

\* the score when the keyword term is bonus
WithKeywordBonus(bonus) ==
    Ok(Min(100, 20 + RecencyTerm(article) + bonus + EngagementAndOfficial
                   + MultiSourceTerm(article, all_articles).val))

\* C19: with a non-empty keyword exactly one keyword bucket applies, tested in
\* this order on the raw lowercased strings (no trimming, no punctuation
\* normalization): +30 if the keyword equals the title, else +15 if it is a
\* substring of the title, else +5 if it is a substring of the summary, else
\* +0; an empty or absent keyword adds 0.
C19_KeywordBuckets ==
    (pc \in {"scored", "returned"} /\ ~NonKeywordRaises)
        => /\ (Truthy(keyword) /\ article.title.k # "none" /\ article.summary.k # "none")
                  => score_result = WithKeywordBonus(KeywordBucket)
           /\ ~Truthy(keyword) => score_result = WithKeywordBonus(0)

\* the title is the keyword wrapped in a space and punctuation: the raw
\* strings differ, so the match is a substring match, 20 + 15
C19_Witness ==
    /\ pc = "scored"
    /\ keyword = Str(KeywordGpt)
    /\ article.title = Str(TitleSpacedGPT)
    /\ normalize_title(article.title.v) = Lower(keyword.v)
    /\ article.summary = Str(SummaryGpt)
    /\ Len(all_articles) = 1
    /\ score_result = Ok(35)

\* C20: a record with published_at equal to the current time, a title equal
\* to the keyword up to letter case, no engagement fields, no official
\* category and no duplicates scores exactly 90 (20 + 40 + 30).
C20_FreshExactMatch ==
    (pc \in {"scored", "returned"}
         /\ article.published_at = Time("aware", 0)
         /\ Truthy(keyword) /\ article.title.k = "str"
         /\ Lower(article.title.v) = Lower(keyword.v)
         /\ NoEngagement
         /\ Get(article.category) # Name("official_blog")
         /\ MatchPositions = {})
        => /\ score_result.exc = "none" => score_result.val = 90
           /\ (AllHaveSourceKey(all_articles) /\ article.summary.k # "none")
                  => score_result = Ok(90)

\* the title "GPT" scored for the keyword "gpt" at the moment of publication
C20_Witness ==
    /\ pc = "scored"
    /\ article.published_at = Time("aware", 0)
    /\ article.title = Str(TitleGPT)
    /\ keyword = Str(KeywordGpt)
    /\ article.title.v # keyword.v
    /\ Len(all_articles) = 2
    /\ score_result = Ok(90)

\* what an engagement field holding an integer, or missing, is to contribute
EngagementBonus(f) ==
    IF f.k = "absent" THEN 0
    ELSE IF f.v >= 0 THEN Min(CHOOSE q \in 0 .. f.v : 10 * q <= f.v /\ f.v < 10 * (q + 1), 20)
    ELSE CHOOSE q \in f.v .. 0 : 10 * q <= f.v /\ f.v < 10 * (q + 1)

\* C21: each engagement field that is present contributes exactly
\* min(floor(value / 10), 20), hn_points and reddit_upvotes are computed
\* independently and stack (up to +40 before the clamp), and an absent
\* engagement field contributes 0.
C21_EngagementTerms ==
    (pc \in {"scored", "returned"}
         /\ article.hn_points.k # "none" /\ article.reddit_upvotes.k # "none"
         /\ KeywordTerm(article, keyword).exc = "none"
         /\ MultiSourceTerm(article, all_articles).exc = "none")
        => score_result
               = Ok(Min(100, 20 + RecencyTerm(article) + KeywordTerm(article, keyword).val
                              + EngagementBonus(article.hn_points)
                              + EngagementBonus(article.reddit_upvotes)
                              + OfficialTerm(article)
                              + MultiSourceTerm(article, all_articles).val))

\* both engagement fields above their cap: 20 + 20 + 20
C21_Witness ==
    /\ pc = "scored"
    /\ article.hn_points = Int_(250)
    /\ article.reddit_upvotes = Int_(1000)
    /\ article.category = AbsentName
    /\ keyword = None
    /\ Len(all_articles) = 1
    /\ score_result = Ok(60)

----------------------------------------------------------------------------
(* heat_calculator.py: normalize_title applied to one string, and again to *)
(* its result                                                              *)

\* the ranking pipeline and the scoring calls are not under way
RankingIdle ==
    /\ keyword = None
    /\ articles_list = <<>>
    /\ idx = 0
    /\ sources_left = 0
    /\ exc = "none"
    /\ balance = FALSE
    /\ max_per_source = 0
    /\ results = <<>>
    /\ collected = <<>>
    /\ sorted_list = <<>>
    /\ article = NoArticle
    /\ all_articles = <<>>
    /\ score_result = Ok(0)
    /\ dup_result = Ok(<<>>)

ranking_vars == <<keyword, articles_list, idx, sources_left, exc, balance,
                  max_per_source, results, collected, sorted_list,
                  article, all_articles, score_result, dup_result>>

\* the characters of the arguments: letters of both cases, a digit, two kinds
\* of whitespace, the underscore and a punctuation mark
TitleChars == {"A", "b", "5", " ", "\t", "_", "!"}

InitNormalize ==
    /\ pc = "normalize_call"
    /\ norm_input \in SeqsUpTo(TitleChars, MaxTitleLen)
    /\ norm_output = <<>>
    /\ norm_again = <<>>
    /\ RankingIdle
    /\ ExtractIdle
    /\ FetchIdle
    /\ CacheIdle

\* normalize_title(title)
CallNormalizeTitle ==
    /\ pc = "normalize_call"
    /\ norm_output' = normalize_title(norm_input)
    /\ pc' = "normalized"
    /\ UNCHANGED <<norm_input, norm_again, ranking_vars, extract_vars,
                   fetch_vars, cache_vars>>

\* normalize_title applied to the value it returned
CallNormalizeTitleAgain ==
    /\ pc = "normalized"
    /\ norm_again' = normalize_title(norm_output)
    /\ pc' = "renormalized"
    /\ UNCHANGED <<norm_input, norm_output, ranking_vars, extract_vars,
                   fetch_vars, cache_vars>>

NextNormalize ==
    \/ CallNormalizeTitle
    \/ CallNormalizeTitleAgain

SpecNormalize == InitNormalize /\ [][NextNormalize]_vars

\* a letter, a digit or whitespace
IsLetterDigitSpace(c) ==
    c \in Range(UpperChars) \cup Range(LowerChars) \cup DigitChars \cup SpaceChars

\* C22: normalize_title lowercases its input, removes every character that is
\* not a letter, a digit or whitespace, collapses each run of whitespace to
\* one space and trims both ends; two titles that differ only by a character
\* that is neither letter, digit nor whitespace (an underscore, say) get the
\* same normalized key.  (Violated: the underscore is kept.)
C22_NormalizeTitle ==
    pc \in {"normalized", "renormalized"}
        => /\ norm_output
                  = Strip(CollapseSpaces(SelectSeq(Lower(norm_input), IsLetterDigitSpace)))
           /\ norm_output = normalize_title(SelectSeq(norm_input, IsLetterDigitSpace))

\* C23: normalize_title is idempotent, normalize_title(normalize_title(s))
\* equals normalize_title(s) for every string s, and the empty string maps to
\* the empty string.
C23_NormalizeIdempotent ==
    /\ pc = "renormalized" => norm_again = norm_output
    /\ (pc \in {"normalized", "renormalized"} /\ norm_input = <<>>) => norm_output = <<>>

\* punctuation between whitespace: the removal leaves a run of two spaces at
\* the front, which the later steps collapse and strip
C23_Witness ==
    /\ pc = "renormalized"
    /\ norm_input = <<" ", "!", "\t", "A">>
    /\ norm_output = <<"a">>
    /\ norm_again = <<"a">>

----------------------------------------------------------------------------
(* search_news.py: the pipeline as a whole *)

\* C24: when the collected record list is empty, the scoring, sorting and
\* balancing steps complete without error and the result list is empty
\* (total_found is 0).
C24_EmptyList ==
    (pc \in {"score", "balance", "done", "raised"} /\ collected = <<>>)
        => /\ pc # "raised"
           /\ exc = "none"
           /\ articles_list = <<>>
           /\ pc = "done" => (results = <<>> /\ Len(results) = 0)

\* no source produced a record, and the empty list went through the balancer
C24_Witness ==
    /\ pc = "done"
    /\ collected = <<>>
    /\ sorted_list = <<>>
    /\ balance
    /\ max_per_source = 1
    /\ results = <<>>

\* l is an initial part of m
IsPrefix(l, m) == Len(l) <= Len(m) /\ SubSeq(m, 1, Len(l)) = l

\* the records written so far carry the values computed against the complete
\* collected list
ScoredAgainstCollected ==
    \A i \in DOMAIN articles_list :
        LET a == articles_list[i]
        IN  /\ a.heat_score.k = "int" =>
                   calculate_heat_score(collected[a.oid], collected, keyword)
                       = Ok(a.heat_score.v)
            /\ a.duplicate_sources.k = "list" =>
                   find_duplicate_sources(collected[a.oid], collected)
                       = Ok(a.duplicate_sources.v)

\* every collected record was scored
AllScored ==
    /\ Len(sorted_list) = Len(collected)
    /\ \A i \in DOMAIN sorted_list :
           sorted_list[i].heat_score.k = "int" /\ sorted_list[i].duplicate_sources.k = "list"

----------------------------------------------------------------------------
(* films-search and music-search, deep_extract.py: run_extract.            *)
(* page_status of a page is the state of its future: "queued" (submitted,  *)
(* no thread has taken it), "running" (_worker is executing), and, once    *)
(* _worker is over, "results" (a non-empty list), "empty" (an empty list)  *)
(* or "raised" (an exception stored in the future).                        *)

Max(a, b) == IF a >= b THEN a ELSE b

\* the pool size without the lower clamp: min(max_workers, 8)
PoolSizeNoFloor(requested) == Min(requested, 8)

\* films line 234, music line 235: max(1, min(max_workers, 8))
PoolSize(requested) == Max(1, Min(requested, 8))

\* the values of the concurrency parameter
WorkerRequests == {-1, 0, 1, 2, 8, 9}

Pages == 1 .. n_pages
Running == {p \in Pages : page_status[p] = "running"}
Finished == {p \in Pages : page_status[p] \in {"results", "empty", "raised"}}

\* the line json.dump writes for an input that does not parse
ErrorLine == 0

InitExtract ==
    /\ pc = "extract_call"
    /\ stdin_kind \in {"blank", "invalid", "not_list", "list"}
    /\ n_pages \in 0 .. MaxPages
    /\ stdin_kind # "list" => n_pages = 0
    /\ max_workers \in WorkerRequests
    /\ page_status = <<>>
    /\ yielded = {}
    /\ printed = <<>>
    /\ RankingIdle
    /\ NormIdle
    /\ FetchIdle
    /\ CacheIdle

\* films lines 219-237: read stdin, return early, or clamp max_workers and
\* submit one future per page
ReadAndSubmit ==
    /\ pc = "extract_call"
    /\ IF stdin_kind = "list" /\ n_pages > 0
       THEN /\ max_workers' = PoolSize(max_workers)
            /\ page_status' = [p \in Pages |-> "queued"]
            /\ pc' = "as_completed"
            /\ UNCHANGED printed
       ELSE /\ printed' = IF stdin_kind = "invalid" THEN <<ErrorLine>> ELSE <<>>
            /\ pc' = "extract_returned"
            /\ UNCHANGED <<max_workers, page_status>>
    /\ UNCHANGED <<stdin_kind, n_pages, yielded, ranking_vars, norm_vars, fetch_vars, cache_vars>>

\* a thread of the pool takes a queued future; the pool never has more than
\* max_workers threads
WorkerStarts(p) ==
    /\ pc \in {"as_completed", "shutdown"}
    /\ page_status[p] = "queued"
    /\ Cardinality(Running) < max_workers
    /\ page_status' = [page_status EXCEPT ![p] = "running"]
    /\ UNCHANGED <<pc, stdin_kind, n_pages, max_workers, yielded, printed,
                   ranking_vars, norm_vars, fetch_vars, cache_vars>>

\* _worker (films lines 211-214) is over: fetch_and_extract returned a list,
\* or create_scraper or fetch_and_extract raised
WorkerFinishes(p) ==
    /\ pc \in {"as_completed", "shutdown"}
    /\ page_status[p] = "running"
    /\ \E outcome \in {"results", "empty", "raised"} :
           page_status' = [page_status EXCEPT ![p] = outcome]
    /\ UNCHANGED <<pc, stdin_kind, n_pages, max_workers, yielded, printed,
                   ranking_vars, norm_vars, fetch_vars, cache_vars>>

\* films lines 238-246: one iteration of the loop over as_completed for a
\* finished future; a non-empty result is printed as one line
LoopBody(p) ==
    /\ pc = "as_completed"
    /\ p \in Finished \ yielded
    /\ yielded' = yielded \cup {p}
    /\ printed' = IF page_status[p] = "results" THEN Append(printed, p) ELSE printed
    /\ UNCHANGED <<pc, stdin_kind, n_pages, max_workers, page_status,
                   ranking_vars, norm_vars, fetch_vars, cache_vars>>

\* every future was handed out: the loop and the with block end, the call returns
LoopEnds ==
    /\ pc = "as_completed"
    /\ yielded = Pages
    /\ pc' = "extract_returned"
    /\ UNCHANGED <<stdin_kind, n_pages, max_workers, page_status, yielded, printed,
                   ranking_vars, norm_vars, fetch_vars, cache_vars>>

\* films line 238: 20 seconds after the call of as_completed a future is still
\* not finished; as_completed raises TimeoutError outside the try of the loop
\* body, and the with block starts pool.shutdown(wait=True)
AsCompletedTimeout ==
    /\ pc = "as_completed"
    /\ Finished # Pages
    /\ pc' = "shutdown"
    /\ UNCHANGED <<stdin_kind, n_pages, max_workers, page_status, yielded, printed,
                   ranking_vars, norm_vars, fetch_vars, cache_vars>>

\* shutdown(wait=True) has waited for every future, queued ones included; the
\* TimeoutError leaves run_extract
ShutdownEnds ==
    /\ pc = "shutdown"
    /\ Finished = Pages
    /\ pc' = "extract_raised"
    /\ UNCHANGED <<stdin_kind, n_pages, max_workers, page_status, yielded, printed,
                   ranking_vars, norm_vars, fetch_vars, cache_vars>>

NextExtract ==
    \/ ReadAndSubmit
    \/ \E p \in Pages : WorkerStarts(p)
    \/ \E p \in Pages : WorkerFinishes(p)
    \/ \E p \in Pages : LoopBody(p)
    \/ LoopEnds
    \/ AsCompletedTimeout
    \/ ShutdownEnds

SpecExtract == InitExtract /\ [][NextExtract]_vars

\* C25: in run_extract the number of worker threads fetching pages at the
\* same time is always between 1 and 8 for every requested concurrency value
\* (0, negative values and values above 8 included) and every number of pages:
\* the pool is made for 1 to 8 threads and never more pages are being fetched
\* than that.
C25_WorkersBounded ==
    pc \in {"as_completed", "shutdown", "extract_raised"}
        \/ (pc = "extract_returned" /\ page_status # <<>>)
        => /\ 1 <= max_workers /\ max_workers <= 8
           /\ Cardinality(Running) <= max_workers

\* a pool of one thread: one page is being fetched while two pages wait
C25_Witness ==
    /\ pc = "as_completed"
    /\ max_workers = 1
    /\ n_pages = 3
    /\ Cardinality(Running) = 1
    /\ Cardinality({p \in Pages : page_status[p] = "queued"}) = 2

\* the number of lines printed for page p
LinesOf(p) == Cardinality({k \in DOMAIN printed : printed[k] = p})

\* C27: in run_extract the failure of a single page does not affect the other
\* pages: under every completion order, for each page whose worker finishes
\* with a non-empty result exactly one NDJSON line holding that page's results
\* is printed, even when other pages' workers raise, return nothing or do not
\* finish within the 20-second as_completed timeout.  (Violated: after the
\* timeout no further page is printed.)
C27_PagesIndependent ==
    /\ \A p \in Pages : LinesOf(p) <= 1
    /\ \A k \in DOMAIN printed :
           printed[k] \in Pages => page_status[printed[k]] = "results"
    /\ pc \in {"extract_returned", "extract_raised"} =>
           \A p \in Pages : page_status[p] = "results" => LinesOf(p) = 1

----------------------------------------------------------------------------
(* shared/web_utils.py: fetch_url.  What an attempt meets is a record      *)
(* [kind, code]: kind "ok" (urlopen and read returned), "http" (HTTPError  *)
(* with that code), "urlerror" (another URLError) or "other" (any other    *)
(* Exception, a timeout among them).                                       *)

Responses ==
    {[kind |-> "ok", code |-> 200]}
    \cup {[kind |-> "http", code |-> c] : c \in {401, 403, 404, 500}}
    \cup {[kind |-> "urlerror", code |-> 0], [kind |-> "other", code |-> 0]}

\* line 51 listing 404 only
NoRetryOnly404(code) == code = 404

\* line 51: e.code in [404, 403, 401]
NoRetry(code) == code \in {404, 403, 401}

\* lines 54, 59, 64: 2 ** attempt
Backoff(n) == 2 ^ n

InitFetch ==
    /\ pc = "fetch_loop"
    /\ max_retries \in 0 .. MaxRetries
    /\ attempt = 0
    /\ responses = <<>>
    /\ slept = <<>>
    /\ fetch_result = "running"
    /\ RankingIdle
    /\ NormIdle
    /\ ExtractIdle
    /\ CacheIdle

\* lines 33-64: one iteration of the loop, with the sleep that ends it
Attempt ==
    /\ pc = "fetch_loop"
    /\ attempt < max_retries
    /\ \E r \in Responses :
           /\ responses' = Append(responses, r)
           /\ IF r.kind = "ok"
              THEN /\ fetch_result' = "content"
                   /\ pc' = "fetch_returned"
                   /\ UNCHANGED <<attempt, slept>>
              ELSE IF r.kind = "http" /\ NoRetry(r.code)
              THEN /\ fetch_result' = "None"
                   /\ pc' = "fetch_returned"
                   /\ UNCHANGED <<attempt, slept>>
              ELSE /\ slept' = IF attempt < max_retries - 1
                               THEN Append(slept, Backoff(attempt)) ELSE slept
                   /\ attempt' = attempt + 1
                   /\ UNCHANGED <<pc, fetch_result>>
    /\ UNCHANGED <<max_retries, ranking_vars, norm_vars, extract_vars, cache_vars>>

\* line 66: the loop is exhausted, return None
ReturnNone ==
    /\ pc = "fetch_loop"
    /\ attempt >= max_retries
    /\ fetch_result' = "None"
    /\ pc' = "fetch_returned"
    /\ UNCHANGED <<max_retries, attempt, responses, slept,
                   ranking_vars, norm_vars, extract_vars, cache_vars>>

NextFetch ==
    \/ Attempt
    \/ ReturnNone

\* every urlopen call has a timeout and every sleep is finite, so an enabled
\* step of the loop is eventually taken
SpecFetch == InitFetch /\ [][NextFetch]_vars /\ WF_vars(NextFetch)

\* the attempt met a failure after which fetch_url tries again
Retryable(r) ==
    r.kind \in {"urlerror", "other"} \/ (r.kind = "http" /\ r.code \notin {401, 403, 404})

\* the sleeps after n failed attempts when m attempts are allowed
RECURSIVE SleepsAfter(_, _)
SleepsAfter(n, m) ==
    IF n = 0 THEN <<>>
    ELSE IF n - 1 < m - 1
         THEN Append(SleepsAfter(n - 1, m), 2 ^ (n - 1))
         ELSE SleepsAfter(n - 1, m)

FetchSafety ==
    /\ Len(responses) <= max_retries
    /\ \A k \in 1 .. (Len(responses) - 1) : Retryable(responses[k])
    /\ pc = "fetch_loop" =>
           /\ \A k \in DOMAIN responses : Retryable(responses[k])
           /\ slept = SleepsAfter(Len(responses), max_retries)
    /\ pc = "fetch_returned" =>
           /\ fetch_result = "content"
                  <=> (responses # <<>> /\ responses[Len(responses)].kind = "ok")
           /\ fetch_result = "None"
                  <=> (\A k \in DOMAIN responses : responses[k].kind # "ok")
           /\ (responses # <<>> /\ ~Retryable(responses[Len(responses)]))
                  => slept = SleepsAfter(Len(responses) - 1, max_retries)
           /\ (responses = <<>> \/ Retryable(responses[Len(responses)]))
                  => /\ Len(responses) = max_retries
                     /\ slept = SleepsAfter(max_retries, max_retries)

\* C28: fetch_url always terminates after at most max_retries request
\* attempts: a successful attempt returns the decoded content at once; an HTTP
\* 401, 403 or 404 response ends the call with None and no further attempt;
\* any other failure is followed by a sleep of 2^attempt seconds and another
\* attempt, except after the last attempt; the call returns None exactly when
\* no attempt succeeded.
C28_FetchTerminates ==
    /\ []FetchSafety
    /\ <>(pc = "fetch_returned")

\* two failures with their sleeps of 1 and 2 seconds, then a 403 at the last
\* attempt
C28_Witness ==
    /\ pc = "fetch_returned"
    /\ max_retries = 3
    /\ Len(responses) = 3
    /\ responses[1].kind = "http" /\ responses[1].code = 500
    /\ responses[2].kind = "other"
    /\ responses[3].code = 403
    /\ slept = <<1, 2>>
    /\ fetch_result = "None"

----------------------------------------------------------------------------
(* shared/network_detector.py: check_global_access with _read_cache and    *)
(* _write_cache.  The cache file is read and written without I/O errors;   *)
(* time passes between the steps of a call and between calls.              *)

\* line 18
CACHE_DURATION == 300

\* the clock advances by one of these amounts
TickSteps == {150, 151}

\* what a test URL does: status 200, another status, or an exception
Answers == {"200", "other", "error"}

\* the expiry test never firing
ExpiredNever(cache_age) == FALSE

\* line 82: cache_age > CACHE_DURATION
Expired(cache_age) == cache_age > CACHE_DURATION

\* lines 47-66: True as soon as a test URL answers 200; the second URL is
\* asked only when the first did not
Probe(r1, r2) ==
    [made |-> TRUE,
     answers |-> IF r1 = "200" THEN <<r1>> ELSE <<r1, r2>>,
     result |-> (r1 = "200" \/ r2 = "200"),
     at |-> now]

InitCache ==
    /\ pc = "cache_ready"
    /\ now = 0
    /\ last_call = NoCall
    /\ \/ /\ cache_exists = FALSE
          /\ cache_mtime = 0
          /\ cache_value = FALSE
          /\ last_probe = NoProbe
       \/ \E r1, r2 \in Answers :
             /\ last_probe = Probe(r1, r2)
             /\ cache_exists = TRUE
             /\ cache_mtime = 0
             /\ cache_value = last_probe.result
    /\ RankingIdle
    /\ NormIdle
    /\ ExtractIdle
    /\ FetchIdle

\* time passes
Tick ==
    /\ \E d \in TickSteps :
           /\ now + d <= MaxTime
           /\ now' = now + d
    /\ UNCHANGED <<pc, cache_exists, cache_mtime, cache_value, last_probe, last_call,
                   ranking_vars, norm_vars, extract_vars, fetch_vars>>

\* lines 35-39 with _read_cache (lines 76-90): the call returns the cached
\* value, or it goes on to the probe; an expired file is unlinked
CallCheckGlobalAccess ==
    /\ pc = "cache_ready"
    /\ \E use_cache \in BOOLEAN :
           IF use_cache /\ cache_exists /\ ~Expired(now - cache_mtime)
           THEN /\ last_call' = [status |-> "returned", use_cache |-> TRUE,
                                 probed |-> FALSE, result |-> cache_value, at |-> now]
                /\ UNCHANGED <<pc, cache_exists>>
           ELSE /\ last_call' = [status |-> "pending", use_cache |-> use_cache,
                                 probed |-> TRUE, result |-> FALSE, at |-> now]
                /\ cache_exists' = IF use_cache THEN FALSE ELSE cache_exists
                /\ pc' = "cache_probing"
    /\ UNCHANGED <<now, cache_mtime, cache_value, last_probe,
                   ranking_vars, norm_vars, extract_vars, fetch_vars>>

\* lines 41-66 with _write_cache (lines 103-106): the probe, the write of its
\* result, the return
ProbeAndWrite ==
    /\ pc = "cache_probing"
    /\ \E r1, r2 \in Answers :
           /\ last_probe' = Probe(r1, r2)
           /\ cache_value' = last_probe'.result
           /\ last_call' = [last_call EXCEPT !.status = "returned",
                                             !.result = last_probe'.result,
                                             !.at = now]
    /\ cache_exists' = TRUE
    /\ cache_mtime' = now
    /\ pc' = "cache_ready"
    /\ UNCHANGED <<now, ranking_vars, norm_vars, extract_vars, fetch_vars>>

NextCache ==
    \/ Tick
    \/ CallCheckGlobalAccess
    \/ ProbeAndWrite

SpecCache == InitCache /\ [][NextCache]_vars

\* the cache file, when there is one, holds the most recent probe
CacheHoldsLastProbe ==
    /\ cache_exists =>
           /\ last_probe.made
           /\ cache_value = last_probe.result
           /\ cache_mtime = last_probe.at
    /\ last_probe.made =>
           (last_probe.result <=> \E k \in DOMAIN last_probe.answers :
                                      last_probe.answers[k] = "200")

\* what the most recent call did, when it has returned
LastCallJustified ==
    last_call.status = "returned" =>
        IF last_call.probed
        THEN /\ last_probe.made
             /\ last_probe.at = last_call.at
             /\ last_probe.result = last_call.result
             /\ cache_exists /\ cache_mtime = last_call.at
             /\ cache_value = last_call.result
        ELSE /\ last_call.use_cache
             /\ last_probe.made
             /\ last_call.at - last_probe.at <= 300
             /\ last_call.result = last_probe.result

====
